---- MODULE Spec2Model ----
(***************************************************************************)
(* Manual tile distribution of the tiles-web GUI: GuiGame (src/src/game.ts) *)
(* with its FactoryDropHandler (same file) and BagView                      *)
(* (src/unnamed/part_000, imported as "./bag-view").                        *)
(*                                                                          *)
(* The rules engine (npm package azul-tiles: GameState) is an external      *)
(* collaborator.  Only what GuiGame reads and writes of it is kept:         *)
(* gamestate.factory, gamestate.tilebag and gamestate.state.  What the      *)
(* engine itself does inside newGame / playMove / endRound is a             *)
(* nondeterministic choice over small sets.                                 *)
(*                                                                          *)
(* An object reference that may be null is a sequence of length 0 (null)   *)
(* or 1 (the object).                                                       *)
(***************************************************************************)
EXTENDS Integers, Sequences, FiniteSets, TLC

(***************************************************************************)
(* Bounds of the model                                                      *)
(***************************************************************************)
\* gamestate.factory.length - 1: the engine's number of regular factories
NumFactories == 2
\* tiles on the factories that were not taken from the supply: drops whose drag
\* did not start at a bag tile land at most this many of them per phase
MaxStrayTiles == 1

(***************************************************************************)
(* Program constants                                                        *)
(***************************************************************************)
\* a factory holds at most 4 tiles (addTileToFactory, tilesPerRound)
FactoryCapacity == 4
\* highest tile colour accepted by handleDrop and counted by BagView
MaxColor == 4
\* azul-tiles Tile enum: Null is the "no tile" sentinel, FirstPlayer the marker
TileNull == -1
TileFirstPlayer == 5

Colors == 0..MaxColor

(***************************************************************************)
(* Choices of the external engine                                           *)
(***************************************************************************)
\* contents of regular factory i after newGame (the engine deals 4 tiles each)
NewGameFill(i) == IF i = 1 THEN <<0, 1, 0, 0>> ELSE <<0, 0, 0, 0>>
\* contents of the engine's bag after newGame
NewGameBag == <<1>>
\* contents of regular factory i when the engine's endRound deals its tiles
EndRoundFill(i) == IF i = 1 THEN <<0, 0, 1, 0>> ELSE <<0, 0, 0, 0>>
\* what the engine's endRound leaves in its bag after dealing every factory
EndRoundBag == <<0>>

(***************************************************************************)
(* Inputs of the event handlers                                             *)
(***************************************************************************)
\* text/plain payloads of a drop whose drag started outside the bag view, one
\* character per element
DragPayloads ==
    { <<"0">>, <<" ", "1", "a">>, <<>>, <<"x">>, <<"7">>, <<"-", "1">> }
\* factory ids a drop or click can carry (0, the centre, is never registered)
FactoryIdInputs == 0..NumFactories
\* slot indices of the tile elements of one factory
SlotInputs == 0..(FactoryCapacity - 1)

(***************************************************************************)
(* Array helpers                                                            *)
(***************************************************************************)
Min(a, b) == IF a <= b THEN a ELSE b

\* Array.prototype.indexOf: 0-based index of the first x, -1 when absent
IndexOf(arr, x) ==
    IF \E i \in 1..Len(arr) : arr[i] = x
    THEN (CHOOSE i \in 1..Len(arr) :
             arr[i] = x /\ \A j \in 1..(i - 1) : arr[j] # x) - 1
    ELSE -1

\* Array.prototype.splice(index, 1): the array without the element at index
Splice1(arr, index) ==
    [i \in 1..(Len(arr) - 1) |-> IF i <= index THEN arr[i] ELSE arr[i + 1]]

\* number of occurrences of x in arr
CountOf(arr, x) == Cardinality({i \in 1..Len(arr) : arr[i] = x})

RECURSIVE SumOver(_, _)
SumOver(f, S) ==
    IF S = {} THEN 0
    ELSE LET x == CHOOSE y \in S : TRUE IN f[x] + SumOver(f, S \ {x})

\* [...keys].sort((a, b) => a - b)
RECURSIVE SortIds(_)
SortIds(S) ==
    IF S = {} THEN <<>>
    ELSE LET m == CHOOSE x \in S : \A y \in S : x <= y
         IN <<m>> \o SortIds(S \ {m})

(***************************************************************************)
(* parseInt(colorStr), radix 10                                             *)
(***************************************************************************)
Digits == <<"0", "1", "2", "3", "4", "5", "6", "7", "8", "9">>
IsDigit(ch) == \E d \in 1..10 : Digits[d] = ch
DigitVal(ch) == (CHOOSE d \in 1..10 : Digits[d] = ch) - 1

RECURSIVE SkipSpace(_)
SkipSpace(s) == IF s # <<>> /\ Head(s) = " " THEN SkipSpace(Tail(s)) ELSE s

RECURSIVE DigitRun(_, _)
DigitRun(s, acc) ==
    IF s # <<>> /\ IsDigit(Head(s))
    THEN DigitRun(Tail(s), acc * 10 + DigitVal(Head(s)))
    ELSE acc

\* [nan |-> TRUE] is NaN
ParseInt(str) ==
    LET s == SkipSpace(str)
        neg == s # <<>> /\ Head(s) = "-"
        body == IF s # <<>> /\ Head(s) \in {"-", "+"} THEN Tail(s) ELSE s
    IN IF body = <<>> \/ ~IsDigit(Head(body))
       THEN [nan |-> TRUE, val |-> 0]
       ELSE [nan |-> FALSE,
             val |-> IF neg THEN 0 - DigitRun(body, 0) ELSE DigitRun(body, 0)]

(***************************************************************************)
(* BagView (src/unnamed/part_000)                                           *)
(***************************************************************************)
\* countTilesInBag: tiles outside 0..4 are not counted
countTilesInBag(tilebag) == [c \in Colors |-> CountOf(tilebag, c)]

\* Object.values(this.tileCounts).reduce((a, b) => a + b, 0)
TotalAvailable(bv) ==
    bv.tileCounts[0] + bv.tileCounts[1] + bv.tileCounts[2] + bv.tileCounts[3]
        + bv.tileCounts[4]

\* updateStatus judging completion against the live count of the supply
updateStatusLiveCount(bv) ==
    LET totalAvailable == TotalAvailable(bv)
        remaining == Min(bv.tilesNeeded, totalAvailable) - bv.tilesPlaced
        allPlaced == remaining <= 0 \/ totalAvailable = 0
    IN [bv EXCEPT !.startDisabled = ~allPlaced]

\* updateStatus: startDisabled is startRoundBtn.disabled
updateStatus(bv) ==
    LET totalAvailable == TotalAvailable(bv)
        remaining == Min(bv.tilesNeeded, totalAvailable + bv.tilesPlaced)
                         - bv.tilesPlaced
        allPlaced == remaining = 0 \/ totalAvailable = 0
    IN [bv EXCEPT !.startDisabled = ~allPlaced]

\* create(tilebag, tilesNeeded): the button starts disabled, then updateStatus()
BagViewCreate(tilebag, tilesNeeded) ==
    updateStatus([tileCounts |-> countTilesInBag(tilebag),
                  tilesNeeded |-> tilesNeeded,
                  tilesPlaced |-> 0,
                  startDisabled |-> TRUE])

\* tilePlaced without the test of the count
tilePlacedUnguarded(bv, color) ==
    updateStatus([bv EXCEPT !.tileCounts[color] = @ - 1,
                            !.tilesPlaced = @ + 1])

\* tilePlaced(color): nothing at all when the count is 0
tilePlaced(bv, color) ==
    IF bv.tileCounts[color] > 0
    THEN updateStatus([bv EXCEPT !.tileCounts[color] = @ - 1,
                                 !.tilesPlaced = @ + 1])
    ELSE bv

\* handleDragStart: the drag starts and carries color.toString()
handleDragStart(bv, color) == ~(bv.tileCounts[color] <= 0)

\* color.toString() for a colour 0..4
ColorToString(color) == <<Digits[color + 1]>>

\* tileReturned without the closing updateStatus()
tileReturnedNoRefresh(bv, color) ==
    [bv EXCEPT !.tileCounts[color] = @ + 1, !.tilesPlaced = @ - 1]

\* tileReturned(color)
tileReturned(bv, color) ==
    updateStatus([bv EXCEPT !.tileCounts[color] = @ + 1,
                            !.tilesPlaced = @ - 1])

(***************************************************************************)
(* FactoryDropHandler (src/src/game.ts)                                     *)
(***************************************************************************)
\* setupDropZones with factoryId = index: the first element registered as 0
setupDropZonesFromZero(numElements) ==
    [factories |-> [id \in 0..(numElements - 1) |-> <<>>], enabled |-> TRUE]

\* setupDropZones: factoryElements[index] becomes factory id index + 1
setupDropZones(numElements) ==
    [factories |-> [id \in 1..numElements |-> <<>>], enabled |-> TRUE]

\* this.factories.get(factoryId) is defined
HasFactory(h, factoryId) == factoryId \in DOMAIN h.factories

\* addTileToFactory with the capacity test off by one (length > 4)
addTileToFactoryOffByOne(h, factoryId, color) ==
    IF ~HasFactory(h, factoryId) THEN [ok |-> FALSE, h |-> h]
    ELSE IF Len(h.factories[factoryId]) > FactoryCapacity
         THEN [ok |-> FALSE, h |-> h]
         ELSE [ok |-> TRUE,
               h |-> [h EXCEPT !.factories[factoryId] = Append(@, color)]]

\* addTileToFactory: [ok, h]
addTileToFactory(h, factoryId, color) ==
    IF ~HasFactory(h, factoryId) THEN [ok |-> FALSE, h |-> h]
    ELSE IF Len(h.factories[factoryId]) >= FactoryCapacity
         THEN [ok |-> FALSE, h |-> h]
         ELSE [ok |-> TRUE,
               h |-> [h EXCEPT !.factories[factoryId] = Append(@, color)]]

\* removeTileFromFactory taking the last tile (pop) instead of the slot's
removeTileFromFactoryPop(h, factoryId, slotIndex) ==
    IF ~HasFactory(h, factoryId) THEN h
    ELSE IF slotIndex >= Len(h.factories[factoryId]) THEN h
         ELSE [h EXCEPT !.factories[factoryId] = SubSeq(@, 1, Len(@) - 1)]

\* removeTileFromFactory: the handler after factory.tiles.splice(slotIndex, 1)
removeTileFromFactory(h, factoryId, slotIndex) ==
    IF ~HasFactory(h, factoryId) THEN h
    ELSE IF slotIndex >= Len(h.factories[factoryId]) THEN h
         ELSE [h EXCEPT !.factories[factoryId] = Splice1(@, slotIndex)]

\* isComplete(totalTilesAvailable)
isComplete(h, totalTilesAvailable) ==
    LET totalPlaced ==
            SumOver([id \in DOMAIN h.factories |-> Len(h.factories[id])],
                    DOMAIN h.factories)
        maxCapacity == Cardinality(DOMAIN h.factories) * FactoryCapacity
    IN totalPlaced >= Min(totalTilesAvailable, maxCapacity)

\* getTotalTilesPlaced
getTotalTilesPlaced(h) ==
    SumOver([id \in DOMAIN h.factories |-> Len(h.factories[id])],
            DOMAIN h.factories)

\* getFactoryConfiguration: copies of the tile arrays, by ascending id
getFactoryConfiguration(h) ==
    LET sortedIds == SortIds(DOMAIN h.factories)
    IN [i \in 1..Len(sortedIds) |-> h.factories[sortedIds[i]]]

\* destroy
HandlerDestroy(h) == [h EXCEPT !.factories = <<>>]

(***************************************************************************)
(* GuiGame (src/src/game.ts).  g is the record of GuiGame's fields.         *)
(***************************************************************************)
\* the callback wired by setOnTileDropped: this.bagView?.tilePlaced(color)
OnTileDropped(g, color) ==
    IF g.bagView = <<>> THEN g
    ELSE [g EXCEPT !.bagView = <<tilePlaced(g.bagView[1], color)>>]

\* the callback wired by setOnTileRemoved: this.bagView?.tileReturned(color)
OnTileRemoved(g, color) ==
    IF g.bagView = <<>> THEN g
    ELSE [g EXCEPT !.bagView = <<tileReturned(g.bagView[1], color)>>]

\* handleDrop calling onTileDropped whether or not the tile was added
handleDropAlwaysNotifies(g, factoryId, colorStr) ==
    LET h == g.factoryDropHandler[1]
        parsed == ParseInt(colorStr)
        color == parsed.val
    IN IF ~h.enabled THEN g
       ELSE IF colorStr = <<>> THEN g
       ELSE IF parsed.nan \/ color < 0 \/ color > MaxColor THEN g
       ELSE OnTileDropped(
                [g EXCEPT !.factoryDropHandler =
                              <<addTileToFactory(h, factoryId, color).h>>],
                color)

\* FactoryDropHandler.handleDrop(e, factoryId) with e.dataTransfer text colorStr
handleDrop(g, factoryId, colorStr) ==
    LET h == g.factoryDropHandler[1]
        parsed == ParseInt(colorStr)
        color == parsed.val
    IN IF ~h.enabled THEN g
       ELSE IF colorStr = <<>> THEN g
       ELSE IF parsed.nan \/ color < 0 \/ color > MaxColor THEN g
       ELSE LET added == addTileToFactory(h, factoryId, color)
            IN IF added.ok
               THEN OnTileDropped(
                        [g EXCEPT !.factoryDropHandler = <<added.h>>], color)
               ELSE g

\* the return of handleDrop that is taken
handleDropExit(g, factoryId, colorStr) ==
    LET h == g.factoryDropHandler[1]
        parsed == ParseInt(colorStr)
    IN IF ~h.enabled \/ colorStr = <<>> THEN "drop:ignored"
       ELSE IF parsed.nan \/ parsed.val < 0 \/ parsed.val > MaxColor
            THEN "drop:ignored"
       ELSE IF addTileToFactory(h, factoryId, parsed.val).ok THEN "drop:placed"
       ELSE IF HasFactory(h, factoryId) THEN "drop:full"
       ELSE "drop:ignored"

\* handleTileClick taking the last tile when the slot clicked is empty
handleTileClickLastTile(g, factoryId, slotIndex) ==
    LET h == g.factoryDropHandler[1]
    IN IF ~h.enabled THEN g
       ELSE IF ~HasFactory(h, factoryId) THEN g
       ELSE IF Len(h.factories[factoryId]) > 0
            THEN LET slot == Min(slotIndex, Len(h.factories[factoryId]) - 1)
                     color == h.factories[factoryId][slot + 1]
                     h2 == removeTileFromFactory(h, factoryId, slot)
                 IN OnTileRemoved(
                        [g EXCEPT !.factoryDropHandler = <<h2>>], color)
            ELSE g

\* FactoryDropHandler.handleTileClick(e, factoryId, slotIndex)
handleTileClick(g, factoryId, slotIndex) ==
    LET h == g.factoryDropHandler[1]
    IN IF ~h.enabled THEN g
       ELSE IF ~HasFactory(h, factoryId) THEN g
       ELSE IF slotIndex < Len(h.factories[factoryId])
            THEN LET color == h.factories[factoryId][slotIndex + 1]
                     h2 == removeTileFromFactory(h, factoryId, slotIndex)
                 IN OnTileRemoved(
                        [g EXCEPT !.factoryDropHandler = <<h2>>], color)
            ELSE g

\* the return of handleTileClick that is taken
handleTileClickExit(g, factoryId, slotIndex) ==
    LET h == g.factoryDropHandler[1]
    IN IF ~h.enabled THEN "click:none"
       ELSE IF ~HasFactory(h, factoryId) THEN "click:none"
       ELSE IF slotIndex < Len(h.factories[factoryId]) THEN "click:removed"
       ELSE "click:none"

\* the tiles restoreTilesToBag pushes for one factory
RestorableTiles(tiles) ==
    SelectSeq(tiles, LAMBDA tile : tile # TileNull /\ tile >= 0)

RECURSIVE RestoredFrom(_, _)
\* the tiles pushed for factories i, i + 1, ..., in that order
RestoredFrom(factory, i) ==
    IF i \notin DOMAIN factory THEN <<>>
    ELSE RestorableTiles(factory[i]) \o RestoredFrom(factory, i + 1)

\* restoreTilesToBag with the loop started at i = 0, the centre
restoreTilesToBagFromCentre(gs) ==
    [gs EXCEPT !.tilebag = @ \o RestoredFrom(gs.factory, 0),
               !.factory = [i \in DOMAIN gs.factory |-> <<>>]]

\* restoreTilesToBag: the engine state afterwards
restoreTilesToBag(gs) ==
    [gs EXCEPT !.tilebag = @ \o RestoredFrom(gs.factory, 1),
               !.factory = [i \in DOMAIN gs.factory |->
                               IF i = 0 THEN gs.factory[0] ELSE <<>>]]

\* display.getRegularFactories() after display.create_empty_factories(n)
getRegularFactories(numFactories) == numFactories

\* enterManualDistributionPhase refilling when ourBag.length <= tilesPerRound
enterManualDistributionPhaseEagerRefill(g) ==
    LET numFactories == Cardinality(DOMAIN g.gamestate.factory) - 1
        tilesPerRound == numFactories * FactoryCapacity
        firstRound == Len(g.ourBag) = 0
        gs1 == IF firstRound THEN restoreTilesToBag(g.gamestate) ELSE g.gamestate
        bag1 == IF firstRound THEN gs1.tilebag ELSE g.ourBag
        refill == Len(bag1) <= tilesPerRound /\ Len(g.discardedTiles) > 0
        bag2 == IF refill THEN bag1 \o g.discardedTiles ELSE bag1
        disc2 == IF refill THEN <<>> ELSE g.discardedTiles
    IN [gamestate |-> gs1,
        ourBag |-> bag2,
        discardedTiles |-> disc2,
        bagView |-> <<BagViewCreate(bag2, tilesPerRound)>>,
        factoryDropHandler |->
            <<setupDropZones(getRegularFactories(numFactories))>>,
        manualDistributionMode |-> TRUE]

\* enterManualDistributionPhase
enterManualDistributionPhase(g) ==
    LET numFactories == Cardinality(DOMAIN g.gamestate.factory) - 1
        tilesPerRound == numFactories * FactoryCapacity
        firstRound == Len(g.ourBag) = 0
        gs1 == IF firstRound THEN restoreTilesToBag(g.gamestate) ELSE g.gamestate
        bag1 == IF firstRound THEN gs1.tilebag ELSE g.ourBag
        refill == Len(bag1) < tilesPerRound /\ Len(g.discardedTiles) > 0
        bag2 == IF refill THEN bag1 \o g.discardedTiles ELSE bag1
        disc2 == IF refill THEN <<>> ELSE g.discardedTiles
    IN [gamestate |-> gs1,
        ourBag |-> bag2,
        discardedTiles |-> disc2,
        bagView |-> <<BagViewCreate(bag2, tilesPerRound)>>,
        factoryDropHandler |->
            <<setupDropZones(getRegularFactories(numFactories))>>,
        manualDistributionMode |-> TRUE]

\* every tile of the bag equal to a placed tile removed, not one per placed tile
RemoveTilesEveryCopy(bag, tiles) ==
    SelectSeq(bag, LAMBDA t : \A k \in 1..Len(tiles) : tiles[k] # t)

RECURSIVE RemoveTiles(_, _)
\* for each tileColor in order: indexOf, then splice when found
RemoveTiles(bag, tiles) ==
    IF tiles = <<>> THEN bag
    ELSE LET index == IndexOf(bag, Head(tiles))
         IN RemoveTiles(IF index # -1 THEN Splice1(bag, index) ELSE bag,
                        Tail(tiles))

RECURSIVE RemovePlaced(_, _)
\* step 3 of applyManualDistribution over the whole configuration
RemovePlaced(bag, factoryConfig) ==
    IF factoryConfig = <<>> THEN bag
    ELSE RemovePlaced(RemoveTiles(bag, Head(factoryConfig)), Tail(factoryConfig))

\* the engine's legal moves for these factories: a colour of a factory
MovesOf(factory) ==
    { <<f, tile>> \in (DOMAIN factory) \X Colors :
        \E k \in 1..Len(factory[f]) : factory[f][k] = tile }

\* (gamestate as any).getMoves(): availableMoves is recomputed; movesFrom is
\* the factories and the bag it is computed in front of
getMoves(gs) ==
    [gs EXCEPT !.movesFrom = [factory |-> gs.factory, tilebag |-> gs.tilebag]]

\* gamestate.availableMoves
AvailableMoves(gs) == MovesOf(gs.movesFrom.factory)

\* step 2 writing gamestate.factory[index] = tiles, the centre included
WriteFactoriesFromCentre(factory, factoryConfig) ==
    [i \in DOMAIN factory |->
        IF i \in 0..(Len(factoryConfig) - 1) THEN factoryConfig[i + 1]
        ELSE factory[i]]

\* step 2 of applyManualDistribution: gamestate.factory[index + 1] = tiles
WriteFactories(factory, factoryConfig) ==
    [i \in DOMAIN factory \cup {k + 1 : k \in 0..(Len(factoryConfig) - 1)} |->
        IF i - 1 \in 0..(Len(factoryConfig) - 1) THEN factoryConfig[i]
        ELSE factory[i]]

\* applyManualDistribution testing factoryDropHandler only after step 4's
\* this.gamestate.tilebag.length = 0
applyManualDistributionLateGuard(g) ==
    IF g.factoryDropHandler = <<>>
    THEN [g EXCEPT !.gamestate.tilebag = <<>>]
    ELSE LET factoryConfig == getFactoryConfiguration(g.factoryDropHandler[1])
             bag == RemovePlaced(g.ourBag, factoryConfig)
             written == [g.gamestate EXCEPT
                            !.factory = WriteFactories(@, factoryConfig),
                            !.tilebag = bag]
         IN [g EXCEPT !.gamestate = getMoves(written),
                      !.ourBag = bag,
                      !.bagView = <<>>,
                      !.factoryDropHandler = <<>>,
                      !.manualDistributionMode = FALSE]

\* applyManualDistribution without step 9, manualDistributionMode = false
applyManualDistributionKeepsMode(g) ==
    IF g.factoryDropHandler = <<>> THEN g
    ELSE LET factoryConfig == getFactoryConfiguration(g.factoryDropHandler[1])
             bag == RemovePlaced(g.ourBag, factoryConfig)
             written == [g.gamestate EXCEPT
                            !.factory = WriteFactories(@, factoryConfig),
                            !.tilebag = bag]
         IN [g EXCEPT !.gamestate = getMoves(written),
                      !.ourBag = bag,
                      !.bagView = <<>>,
                      !.factoryDropHandler = <<>>]

\* applyManualDistribution calling getMoves() before the bag is synchronised
applyManualDistributionMovesFirst(g) ==
    IF g.factoryDropHandler = <<>> THEN g
    ELSE LET factoryConfig == getFactoryConfiguration(g.factoryDropHandler[1])
             bag == RemovePlaced(g.ourBag, factoryConfig)
             written == [g.gamestate EXCEPT
                            !.factory = WriteFactories(@, factoryConfig)]
         IN [g EXCEPT !.gamestate = [getMoves(written) EXCEPT !.tilebag = bag],
                      !.ourBag = bag,
                      !.bagView = <<>>,
                      !.factoryDropHandler = <<>>,
                      !.manualDistributionMode = FALSE]

\* applyManualDistribution: steps 2 and 3, the bag, getMoves(), the cleanup
applyManualDistribution(g) ==
    IF g.factoryDropHandler = <<>> THEN g
    ELSE LET factoryConfig == getFactoryConfiguration(g.factoryDropHandler[1])
             bag == RemovePlaced(g.ourBag, factoryConfig)
             written == [g.gamestate EXCEPT
                            !.factory = WriteFactories(@, factoryConfig),
                            !.tilebag = bag]
         IN [g EXCEPT !.gamestate = getMoves(written),
                      !.ourBag = bag,
                      !.bagView = <<>>,
                      !.factoryDropHandler = <<>>,
                      !.manualDistributionMode = FALSE]

(***************************************************************************)
(* The engine, as far as GuiGame depends on it (azul-tiles GameState)       *)
(***************************************************************************)
\* new GameState(); newGame(players.length)
EngineNewGame ==
    getMoves([factory |-> [i \in 0..NumFactories |->
                              IF i = 0 THEN <<TileFirstPlayer>> ELSE NewGameFill(i)],
              tilebag |-> NewGameBag,
              state |-> "turn",
              movesFrom |-> <<>>])

\* some regular tile is left in some factory
TilesLeft(factory) ==
    \E i \in DOMAIN factory : \E k \in 1..Len(factory[i]) : factory[i][k] \in Colors

\* playMove(move); nextTurn(): the tiles of one colour leave factory f; from a
\* regular factory the rest goes to the centre, from the centre the marker goes too
EnginePlayMove(gs, f, tile) ==
    LET rest == SelectSeq(gs.factory[f], LAMBDA t : t # tile)
        factory2 ==
            IF f = 0
            THEN [gs.factory EXCEPT
                     ![0] = SelectSeq(rest, LAMBDA t : t # TileFirstPlayer)]
            ELSE [gs.factory EXCEPT ![f] = <<>>, ![0] = @ \o rest]
    IN getMoves([gs EXCEPT
                    !.factory = factory2,
                    !.state = IF TilesLeft(factory2) THEN "turn" ELSE "endOfTurns"])

\* the outcomes of endRound() when the game continues: the engine has no tiles
\* left to deal, or it deals every factory from its own tiles
EndRoundOutcomes(gs) ==
    { getMoves([gs EXCEPT
                   !.factory = [i \in DOMAIN gs.factory |->
                                   IF i = 0 THEN <<TileFirstPlayer>>
                                   ELSE IF dealt THEN EndRoundFill(i) ELSE <<>>],
                   !.tilebag = IF dealt THEN EndRoundBag ELSE <<>>,
                   !.state = "turn"]) :
        dealt \in BOOLEAN }

(***************************************************************************)
(* State                                                                    *)
(***************************************************************************)
VARIABLES
    gamestate,               \* GuiGame.gamestate: factory, tilebag, state, moves
    ourBag,                  \* GuiGame.ourBag
    discardedTiles,          \* GuiGame.discardedTiles
    manualDistributionMode,  \* GuiGame.manualDistributionMode
    bagView,                 \* GuiGame.bagView: <<>> or <<BagView>>
    factoryDropHandler,      \* GuiGame.factoryDropHandler: <<>> or <<handler>>
    selected_tile,           \* GuiGame.selected_tile
    selected_factory,        \* GuiGame.selected_factory
    possible_lines,          \* GuiGame.possible_lines, as a set of line ids
    playerType,              \* the type of the players of GuiGame.players
    arrays,                  \* the tile arrays by identity, where identity counts
    lastEvent                \* the handler that ran last and the return it took

vars == <<gamestate, ourBag, discardedTiles, manualDistributionMode, bagView,
          factoryDropHandler, selected_tile, selected_factory, possible_lines,
          playerType, arrays, lastEvent>>

\* the selection of a human player
selection == <<selected_tile, selected_factory, possible_lines>>

\* the fields of GuiGame as one record
Game ==
    [gamestate |-> gamestate,
     ourBag |-> ourBag,
     discardedTiles |-> discardedTiles,
     bagView |-> bagView,
     factoryDropHandler |-> factoryDropHandler,
     manualDistributionMode |-> manualDistributionMode]

\* the fields of GuiGame become those of the record next
Becomes(next) ==
    \E g \in {next} :
    /\ gamestate' = g.gamestate
    /\ ourBag' = g.ourBag
    /\ discardedTiles' = g.discardedTiles
    /\ bagView' = g.bagView
    /\ factoryDropHandler' = g.factoryDropHandler
    /\ manualDistributionMode' = g.manualDistributionMode
    /\ UNCHANGED <<selection, playerType, arrays>>

\* a new game whose replay()/rematch() does not reset ourBag
StartOfGameKeepsBag ==
    [gamestate |-> EngineNewGame,
     ourBag |-> ourBag,
     discardedTiles |-> <<>>,
     bagView |-> bagView,
     factoryDropHandler |-> factoryDropHandler,
     manualDistributionMode |-> manualDistributionMode]

\* GuiGame right after this.gamestate.newGame(...) with an empty bag and discard
StartOfGame ==
    [gamestate |-> EngineNewGame,
     ourBag |-> <<>>,
     discardedTiles |-> <<>>,
     bagView |-> bagView,
     factoryDropHandler |-> factoryDropHandler,
     manualDistributionMode |-> manualDistributionMode]

\* the tiles on the factories of g beyond those taken from the supply
StrayTiles(g) ==
    getTotalTilesPlaced(g.factoryDropHandler[1])
        + TotalAvailable(g.bagView[1])
        - SumOver(countTilesInBag(g.ourBag), Colors)

(***************************************************************************)
(* Init: the state after new GuiGame(players)                               *)
(***************************************************************************)
Init ==
    LET g == enterManualDistributionPhase(
                 [gamestate |-> EngineNewGame,
                  ourBag |-> <<>>,
                  discardedTiles |-> <<>>,
                  bagView |-> <<>>,
                  factoryDropHandler |-> <<>>,
                  manualDistributionMode |-> FALSE])
    IN /\ gamestate = g.gamestate
       /\ ourBag = g.ourBag
       /\ discardedTiles = g.discardedTiles
       /\ bagView = g.bagView
       /\ factoryDropHandler = g.factoryDropHandler
       /\ manualDistributionMode = g.manualDistributionMode
       /\ selected_tile = TileNull
       /\ selected_factory = -1
       /\ possible_lines = {}
       /\ playerType = "AI"
       /\ arrays = <<>>
       /\ lastEvent = "construct"

(***************************************************************************)
(* Actions: one per event handler                                           *)
(***************************************************************************)
\* a bag tile of colour color is dragged (handleDragStart lets the drag start)
\* and dropped on a tile slot of factory factoryId
BagDropOn(factoryId, color) ==
    /\ factoryDropHandler # <<>>
    /\ bagView # <<>>
    /\ handleDragStart(bagView[1], color)
    /\ Becomes(handleDrop(Game, factoryId, ColorToString(color)))
    /\ lastEvent' = handleDropExit(Game, factoryId, ColorToString(color))

BagDrop == \E factoryId \in FactoryIdInputs, color \in Colors :
               BagDropOn(factoryId, color)

\* something else that carries text (a selection, a link, a file of another
\* window) is dragged and dropped on a tile slot of factory factoryId
StrayDropOn(factoryId, colorStr) ==
    /\ factoryDropHandler # <<>>
    /\ \E g \in {handleDrop(Game, factoryId, colorStr)} :
          /\ StrayTiles(g) <= MaxStrayTiles
          /\ Becomes(g)
    /\ lastEvent' = handleDropExit(Game, factoryId, colorStr)

StrayDrop == \E factoryId \in FactoryIdInputs, colorStr \in DragPayloads :
                 StrayDropOn(factoryId, colorStr)

\* a click on tile slot slotIndex of factory factoryId
TileClickOn(factoryId, slotIndex) ==
    /\ factoryDropHandler # <<>>
    /\ Becomes(handleTileClick(Game, factoryId, slotIndex))
    /\ lastEvent' = handleTileClickExit(Game, factoryId, slotIndex)

TileClick == \E factoryId \in FactoryIdInputs, slotIndex \in SlotInputs :
                 TileClickOn(factoryId, slotIndex)

\* a click on the start-round button: a disabled button dispatches no click
StartRound ==
    /\ bagView # <<>>
    /\ ~bagView[1].startDisabled
    /\ Becomes(applyManualDistribution(Game))
    /\ lastEvent' = "apply"

\* screen_click_callback in State.turn with an AI to move
ScreenClickTurn ==
    /\ ~manualDistributionMode
    /\ playerType = "AI"
    /\ gamestate.state = "turn"
    /\ \E move \in AvailableMoves(gamestate) :
        /\ gamestate' = EnginePlayMove(gamestate, move[1], move[2])
        /\ lastEvent' = "move"
    /\ UNCHANGED <<ourBag, discardedTiles, manualDistributionMode, bagView,
                   factoryDropHandler, selection, playerType, arrays>>

\* screen_click_callback in State.endOfTurns, endRound() returning false
ScreenClickGameEnd ==
    /\ ~manualDistributionMode
    /\ gamestate.state = "endOfTurns"
    /\ gamestate' = [gamestate EXCEPT !.state = "gameEnd"]
    /\ lastEvent' = "gameEnd"
    /\ UNCHANGED <<ourBag, discardedTiles, manualDistributionMode, bagView,
                   factoryDropHandler, selection, playerType, arrays>>

\* screen_click_callback in State.endOfTurns, endRound() returning true
ScreenClickNewRound ==
    /\ ~manualDistributionMode
    /\ gamestate.state = "endOfTurns"
    /\ \E gs \in EndRoundOutcomes(gamestate) :
        Becomes(enterManualDistributionPhase([Game EXCEPT !.gamestate = gs]))
    /\ lastEvent' = "enter"

\* replay(): a new game with the same seed, so the engine's deal is the same
Replay ==
    /\ Becomes(enterManualDistributionPhase(StartOfGame))
    /\ lastEvent' = "replay"

\* rematch(): a new game; its deal is again the engine's (NewGameFill)
Rematch ==
    /\ Becomes(enterManualDistributionPhase(StartOfGame))
    /\ lastEvent' = "rematch"

Next ==
    \/ BagDrop
    \/ StrayDrop
    \/ TileClick
    \/ StartRound
    \/ ScreenClickTurn
    \/ ScreenClickGameEnd
    \/ ScreenClickNewRound
    \/ Replay
    \/ Rematch

Spec == Init /\ [][Next]_vars

(***************************************************************************)
(* enterManualDistributionPhase as a function of the fields it reads: the   *)
(* fields are drawn from bounded sets and the only step is one Enter.       *)
(***************************************************************************)
\* a bag of n tiles, colours 0 and 1 in turn
BagOfLength(n) == [k \in 1..n |-> k % 2]

\* ourBag before Enter: empty, short, and around tilesPerRound
EnterBags ==
    { <<>>, <<0>>, <<1, 0>>, <<0, 1, 1>> }
        \cup { BagOfLength(NumFactories * FactoryCapacity + d) : d \in {-1, 0, 1} }

\* discardedTiles before Enter
EnterDiscards == { <<>>, <<0>>, <<1, 1>>, <<0, 1, 0>> }

\* what a factory of the engine holds before Enter
EnterFills == { <<>>, <<0, TileNull, 1, TileNull>>, <<1, 1, 0, 0>> }

\* the engine before Enter: factory 1, the other factories, the centre, the bag
EnterEngines ==
    { getMoves([factory |-> [i \in 0..NumFactories |->
                                IF i = 0 THEN centre
                                ELSE IF i = 1 THEN first ELSE others],
                tilebag |-> bag,
                state |-> "turn",
                movesFrom |-> <<>>]) :
        first \in EnterFills, others \in EnterFills,
        centre \in { <<TileFirstPlayer>>, <<TileFirstPlayer, 0>> },
        bag \in { <<>>, <<1>>, <<0, 0>> } }

InitEnter ==
    /\ gamestate \in EnterEngines
    /\ ourBag \in EnterBags
    /\ discardedTiles \in EnterDiscards
    /\ manualDistributionMode = FALSE
    /\ bagView = <<>>
    /\ factoryDropHandler = <<>>
    /\ selected_tile = TileNull
    /\ selected_factory = -1
    /\ possible_lines = {}
    /\ playerType = "AI"
    /\ arrays = <<>>
    /\ lastEvent = "input"

\* this.enterManualDistributionPhase() on the fields drawn
EnterOnInput ==
    /\ lastEvent = "input"
    /\ Becomes(enterManualDistributionPhase(Game))
    /\ lastEvent' = "enter"

NextEnter == EnterOnInput

SpecEnter == InitEnter /\ [][NextEnter]_vars

(***************************************************************************)
(* Vocabulary of the properties                                             *)
(***************************************************************************)
Distributing == factoryDropHandler # <<>> /\ bagView # <<>>
\* the tiles placed in each factory, by factory id
Placed == factoryDropHandler[1].factories
\* the supply counts
Counts == bagView[1].tileCounts
\* the supply as created by the Enter of the current phase: ourBag is what
\* create() counted and is not written again before Apply
PoolAtEnter == SumOver(countTilesInBag(ourBag), Colors)
\* the handler of the step was a drop, a click-to-remove
DropStep == lastEvent' \in {"drop:placed", "drop:full", "drop:ignored"}
ClickStep == lastEvent' \in {"click:removed", "click:none"}
\* payloads a drop can carry: those of the bag tiles and the others
AllPayloads == DragPayloads \cup {ColorToString(c) : c \in Colors}
\* supply + tiles in the factories + discard pile
TilesInPhase ==
    TotalAvailable(bagView[1]) + getTotalTilesPlaced(factoryDropHandler[1])
        + Len(discardedTiles)

(***************************************************************************)
(* C1: within one distribution phase no drop and no click-to-remove changes *)
(* supply + tiles in the factories + length of the discard pile.            *)
(* Violated: a drop of a colour whose supply count is 0 adds a tile to the  *)
(* factory without debiting the supply.                                     *)
(***************************************************************************)
C1_TilesConserved ==
    [][(Distributing /\ (DropStep \/ ClickStep)) => TilesInPhase' = TilesInPhase]_vars

(***************************************************************************)
(* C2: a drop adds a tile of colour c to a factory only if the supply count *)
(* of c was positive before the drop; with count 0 the drop changes neither *)
(* the supply counts, nor the placed-tile counter, nor any factory.         *)
(* Violated: handleDrop places first and BagView.tilePlaced only skips the  *)
(* debit.                                                                   *)
(***************************************************************************)
C2_DropNeedsSupply ==
    [][(Distributing /\ DropStep) =>
        \A f \in DOMAIN Placed, c \in Colors :
            (Placed'[f] = Append(Placed[f], c)) => Counts[c] > 0]_vars

(***************************************************************************)
(* C3: Apply writes into the engine's factory i, for i in 1..numFactories,  *)
(* exactly the tiles placed in factory i, in order, and leaves the centre   *)
(* (index 0) as it was.                                                     *)
(***************************************************************************)
C3_ApplyWritesSnapshot ==
    [][(Distributing /\ lastEvent' = "apply") =>
        /\ \A i \in 1..NumFactories : gamestate'.factory[i] = Placed[i]
        /\ gamestate'.factory[0] = gamestate.factory[0]
        /\ DOMAIN gamestate'.factory = DOMAIN gamestate.factory]_vars

\* Apply has run on two different non-empty factories, the centre non-empty
C3_Witness ==
    /\ lastEvent = "apply"
    /\ gamestate.factory[0] # <<>>
    /\ gamestate.factory[1] # <<>>
    /\ gamestate.factory[2] # <<>>
    /\ gamestate.factory[1] # gamestate.factory[2]

(***************************************************************************)
(* C4: after Apply the engine's bag holds, colour by colour, exactly the    *)
(* supply counts of the moment of Apply, and nothing else.                  *)
(***************************************************************************)
C4_ApplySyncsBag ==
    [][(Distributing /\ lastEvent' = "apply") =>
        /\ \A c \in Colors : CountOf(gamestate'.tilebag, c) = Counts[c]
        /\ Len(gamestate'.tilebag) = TotalAvailable(bagView[1])]_vars

\* Apply has run with supply left over, and the factories hold a tile of the
\* colour that is left
C4_Witness ==
    /\ lastEvent = "apply"
    /\ gamestate.tilebag # <<>>
    /\ \E i \in 1..NumFactories :
        CountOf(gamestate.factory[i], gamestate.tilebag[1]) > 0

(***************************************************************************)
(* C5: whenever the start-round button can dispatch its click (Apply can    *)
(* run), the factories hold at least min(pool at Enter, numFactories * 4)   *)
(* tiles, i.e. isComplete(pool at Enter) holds.                             *)
(***************************************************************************)
C5_ApplyOnlyWhenComplete ==
    (Distributing /\ ~bagView[1].startDisabled) =>
        /\ getTotalTilesPlaced(factoryDropHandler[1])
               >= Min(PoolAtEnter, NumFactories * FactoryCapacity)
        /\ isComplete(factoryDropHandler[1], PoolAtEnter)

\* Apply has run with fewer tiles than the factories can hold: the pool was short
C5_Witness ==
    /\ lastEvent = "apply"
    /\ SumOver([i \in 1..NumFactories |-> Len(gamestate.factory[i])],
               1..NumFactories) \in 1..(NumFactories * FactoryCapacity - 1)

C7_CapacityBound ==
    factoryDropHandler # <<>> =>
        \A f \in DOMAIN Placed : Len(Placed[f]) \in 0..4

\* a drop has just been refused by a factory that holds 4 tiles
C7_Witness ==
    /\ Distributing
    /\ lastEvent = "drop:full"
    /\ \E f \in DOMAIN Placed : Len(Placed[f]) = 4

(***************************************************************************)
(* C8: a drop, whatever it carries, onto a factory that holds 4 tiles or    *)
(* onto an unknown factory id changes nothing: no factory, no supply count, *)
(* not the placed-tile counter.                                             *)
(***************************************************************************)
C8_FullOrUnknownRejected ==
    Distributing =>
        \A f \in FactoryIdInputs, colorStr \in AllPayloads :
            (f \notin DOMAIN Placed \/ Len(Placed[f]) = 4) =>
                handleDrop(Game, f, colorStr) = Game

\* a drop of a colour the supply still has was refused by a full factory
C8_Witness ==
    /\ Distributing
    /\ lastEvent = "drop:full"
    /\ \E c \in Colors : Counts[c] > 0

(***************************************************************************)
(* C9: a drop that lands a tile in factory f, followed at once by a click   *)
(* on the slot it landed in, restores the supply counts, the placed-tile    *)
(* counter and every factory.                                               *)
(* Violated: when the supply count of the colour is 0 the drop debits       *)
(* nothing, and the removal credits the supply and decrements the counter.  *)
(***************************************************************************)
C9_DropThenRemoveRestores ==
    Distributing =>
        \A f \in DOMAIN Placed, colorStr \in AllPayloads :
            LET dropped == handleDrop(Game, f, colorStr)
            IN (/\ dropped.factoryDropHandler # factoryDropHandler
                /\ StrayTiles(dropped) <= MaxStrayTiles)
               => handleTileClick(dropped, f, Len(Placed[f])) = Game

(***************************************************************************)
(* C10: an Enter that is not the first of its game does not read the supply *)
(* from the engine: the supply is what was left after the previous Apply,   *)
(* plus the discard pile when that is refilled.                             *)
(* Violated: the first-round test is ourBag.length === 0, so an Enter after *)
(* an Apply that emptied the supply seeds it again from the engine.         *)
(***************************************************************************)
C10_SeededOncePerGame ==
    [][(lastEvent' = "enter") =>
        LET refill == /\ Len(ourBag) < NumFactories * FactoryCapacity
                      /\ Len(discardedTiles) > 0
            kept == IF refill THEN ourBag \o discardedTiles ELSE ourBag
        IN /\ ourBag' = kept
           /\ bagView'[1].tileCounts = countTilesInBag(kept)]_vars

\* the tiles the first Enter of a game seeds the supply with
TotalTilesInGame ==
    SumOver(countTilesInBag(restoreTilesToBag(EngineNewGame).tilebag), Colors)

(***************************************************************************)
(* C11: across the rounds of a game, supply + tiles in the factories +      *)
(* length of the discard pile stays the number of tiles of the game: at the *)
(* Enter of a later round the tiles played in the round before are in the   *)
(* discard pile.                                                            *)
(* Violated: nothing ever writes a tile to discardedTiles, so the tiles     *)
(* applied to the engine in a round are gone at the next Enter.             *)
(***************************************************************************)
C11_TilesConservedAcrossRounds ==
    (Distributing /\ lastEvent = "enter") => TilesInPhase = TotalTilesInGame

\* ourBag at the refill test of Enter: the bag seeded when ourBag is empty
SupplyBeforeRefill ==
    IF ourBag = <<>> THEN restoreTilesToBag(gamestate).tilebag ELSE ourBag

(***************************************************************************)
(* C12: Enter moves the discard pile into the supply exactly when the       *)
(* supply holds fewer than tilesNeeded tiles and the discard pile is not    *)
(* empty; then the whole pile is moved (supply = old supply plus every      *)
(* discarded tile, discard empty) before the counts are presented;          *)
(* otherwise supply and discard are as they were.                           *)
(***************************************************************************)
C12_RefillIffShort ==
    [][(lastEvent' = "enter") =>
        LET supply == SupplyBeforeRefill
            needed == NumFactories * FactoryCapacity
            short == /\ SumOver(countTilesInBag(supply), Colors) < needed
                     /\ discardedTiles # <<>>
        IN /\ bagView'[1].tilesNeeded = needed
           /\ Counts' = countTilesInBag(ourBag')
           /\ IF short
              THEN /\ ourBag' = supply \o discardedTiles
                   /\ discardedTiles' = <<>>
                   /\ TotalAvailable(bagView'[1]) = Len(supply) + Len(discardedTiles)
              ELSE /\ ourBag' = supply
                   /\ discardedTiles' = discardedTiles]_vars

\* a refill has happened: a short supply got the whole discard pile
C12_Witness ==
    /\ lastEvent = "enter"
    /\ discardedTiles = <<>>
    /\ ourBag = <<1, 0, 0, 1, 0>>
    /\ TotalAvailable(bagView[1]) = 5

\* availableMoves is the legal-move set of the engine's present factories, and
\* was computed with the present bag
MovesFresh ==
    /\ gamestate.movesFrom.factory = gamestate.factory
    /\ gamestate.movesFrom.tilebag = gamestate.tilebag
    /\ AvailableMoves(gamestate) = MovesOf(gamestate.factory)

(***************************************************************************)
(* C13: Apply recomputes the engine's legal moves after it has written the  *)
(* factories and the bag and before it leaves the distribution mode: right  *)
(* after Apply, and in every state in which screen_click_callback lets the  *)
(* engine play, end a round or read availableMoves, the moves are those of  *)
(* the factories and bag the engine holds.                                  *)
(***************************************************************************)
C13_MovesRecomputedInApply ==
    /\ lastEvent = "apply" => (MovesFresh /\ ~manualDistributionMode)
    /\ ~manualDistributionMode => MovesFresh

\* Apply has run on factories that differ from those the moves were computed
\* for before, and left bag tiles behind
C13_Witness ==
    /\ lastEvent = "apply"
    /\ gamestate.tilebag # <<>>
    /\ gamestate.factory[NumFactories] # <<>>
    /\ AvailableMoves(gamestate) # {}

(***************************************************************************)
(* C14: after replay() or rematch(), from whatever state, the discard pile  *)
(* is empty, every factory of the handler is empty, the supply is the one   *)
(* seeded from the new engine state and nothing is counted as placed, and   *)
(* the game is in the distribution mode.                                    *)
(***************************************************************************)
C14_NewGameDiscardsSession ==
    lastEvent \in {"replay", "rematch"} =>
        /\ discardedTiles = <<>>
        /\ Distributing /\ manualDistributionMode
        /\ DOMAIN Placed = 1..NumFactories
        /\ \A f \in DOMAIN Placed : Placed[f] = <<>>
        /\ gamestate = restoreTilesToBag(EngineNewGame)
        /\ ourBag = restoreTilesToBag(EngineNewGame).tilebag
        /\ Counts = countTilesInBag(ourBag)
        /\ bagView[1].tilesPlaced = 0

\* a rematch has just started a new game
C14_Witness ==
    /\ lastEvent = "rematch"
    /\ Distributing
    /\ TotalAvailable(bagView[1]) = TotalTilesInGame

(***************************************************************************)
(* C15: a click on a slot at or beyond the factory's tile count, or on an   *)
(* unknown factory id, changes nothing: no factory, no supply count, not    *)
(* the placed-tile counter (tileReturned is not called).                    *)
(***************************************************************************)
C15_EmptySlotClickIgnored ==
    Distributing =>
        \A f \in FactoryIdInputs, slotIndex \in SlotInputs :
            (f \notin DOMAIN Placed \/ slotIndex >= Len(Placed[f])) =>
                handleTileClick(Game, f, slotIndex) = Game

\* an empty slot has just been clicked in a factory that holds tiles
C15_Witness ==
    /\ Distributing
    /\ lastEvent = "click:none"
    /\ \E f \in DOMAIN Placed : Placed[f] # <<>>

(***************************************************************************)
(* C16: every supply count is a natural number; tilePlaced(c) with count 0  *)
(* leaves the counts and the placed-tile counter as they are, and with a    *)
(* positive count takes exactly 1 from the count of c.                      *)
(***************************************************************************)
C16_CountsNonNegative ==
    bagView # <<>> =>
        \A c \in Colors :
            /\ Counts[c] \in Nat
            /\ IF Counts[c] = 0
               THEN tilePlaced(bagView[1], c) = bagView[1]
               ELSE tilePlaced(bagView[1], c).tileCounts
                        = [Counts EXCEPT ![c] = @ - 1]

\* a tile has landed whose colour the supply did not have: tilePlaced ran
\* with count 0
C16_Witness ==
    /\ Distributing
    /\ lastEvent = "drop:placed"
    /\ StrayTiles(Game) > 0
    /\ \E c \in Colors :
        /\ Counts[c] = 0
        /\ \E f \in DOMAIN Placed : Placed[f] # <<>> /\ Placed[f][Len(Placed[f])] = c

\* the phases: no distribution views and the mode off, or both views and the
\* mode on
Idle == ~manualDistributionMode /\ bagView = <<>> /\ factoryDropHandler = <<>>
InDistribution == manualDistributionMode /\ Distributing

(***************************************************************************)
(* C17, as stated: enterManualDistributionPhase runs only when the          *)
(* controller is Idle.                                                      *)
(* Violated: replay() and rematch() run it from the distribution phase too. *)
(***************************************************************************)
C17_EnterOnlyWhenIdle ==
    [][(lastEvent' \in {"enter", "replay", "rematch"}) => Idle]_vars

(***************************************************************************)
(* C17, amended: the Enter of a round end runs only when Idle and leads to  *)
(* the distribution phase; Apply runs only in the distribution phase and    *)
(* leads to Idle; a new game (replay, rematch) leads to the distribution    *)
(* phase from any phase; no other handler changes the phase.  So within a   *)
(* game Enter and Apply alternate.                                          *)
(***************************************************************************)
C17_PhasesAlternate ==
    [][/\ (lastEvent' = "enter") => (Idle /\ InDistribution')
       /\ (lastEvent' = "apply") => (InDistribution /\ Idle')
       /\ (lastEvent' \in {"replay", "rematch"}) => InDistribution'
       /\ (lastEvent' \notin {"enter", "apply", "replay", "rematch"}) =>
              /\ Idle' = Idle
              /\ InDistribution' = InDistribution
       /\ Idle' \/ InDistribution']_vars

\* the Enter of a second round: the round before was entered, applied, played
C17_Witness ==
    /\ lastEvent = "enter"
    /\ InDistribution
    /\ bagView[1].tilesPlaced = 0

\* the regular factories of the engine
RegularFactories == DOMAIN gamestate.factory \ {0}

(***************************************************************************)
(* C18: the first Enter of a game (ourBag and the discard pile empty) makes *)
(* the supply count of every colour the number of tiles of that colour in   *)
(* the engine's bag plus in its regular factories; Null and negative tiles  *)
(* count for nothing; the centre is not counted and not changed.            *)
(***************************************************************************)
C18_SeededFromBagAndFactories ==
    [][(lastEvent' = "enter" /\ ourBag = <<>> /\ discardedTiles = <<>>) =>
        /\ \A c \in Colors :
              Counts'[c] = CountOf(gamestate.tilebag, c)
                  + SumOver([i \in RegularFactories |->
                                CountOf(gamestate.factory[i], c)],
                            RegularFactories)
        /\ \A k \in 1..Len(ourBag') : ourBag'[k] \in Colors
        /\ gamestate'.factory[0] = gamestate.factory[0]]_vars

\* the supply was seeded from a bag and factories holding Null tiles, next to
\* a centre that holds a colour tile
C18_Witness ==
    /\ lastEvent = "enter"
    /\ gamestate.factory[0] = <<TileFirstPlayer, 0>>
    /\ Len(ourBag) >= 4
    /\ SubSeq(ourBag, 1, 4) = <<0, 0, 0, 1>>
    /\ Counts = countTilesInBag(ourBag)

(***************************************************************************)
(* C19: after the first Enter of a game every regular factory of the engine *)
(* is empty and the engine's bag is empty.                                  *)
(* Violated: restoreTilesToBag pushes the factories' tiles into the         *)
(* engine's bag and ourBag is a copy of it; the engine's bag is not cleared *)
(* and holds every tile of the supply until Apply.                          *)
(***************************************************************************)
C19_EngineClearedAfterSeeding ==
    lastEvent \in {"construct", "replay", "rematch"} =>
        /\ \A i \in RegularFactories : gamestate.factory[i] = <<>>
        /\ gamestate.tilebag = <<>>

(***************************************************************************)
(* C20: a click on slot i of factory f, i below the number of its tiles,    *)
(* takes out the tile at position i and keeps the others in order, leaves   *)
(* the other factories as they are, and adds 1 to the supply count of the   *)
(* colour taken out and to no other.                                        *)
(***************************************************************************)
C20_RemovalCompacts ==
    Distributing =>
        \A f \in DOMAIN Placed, slotIndex \in SlotInputs :
            slotIndex < Len(Placed[f]) =>
                LET after == handleTileClick(Game, f, slotIndex)
                    tiles == after.factoryDropHandler[1].factories
                    color == Placed[f][slotIndex + 1]
                IN /\ tiles[f] = SubSeq(Placed[f], 1, slotIndex)
                                    \o SubSeq(Placed[f], slotIndex + 2, Len(Placed[f]))
                   /\ \A other \in DOMAIN Placed \ {f} : tiles[other] = Placed[other]
                   /\ DOMAIN tiles = DOMAIN Placed
                   /\ after.bagView[1].tileCounts = [Counts EXCEPT ![color] = @ + 1]

\* a tile has been taken out of a factory that keeps tiles of two colours
C20_Witness ==
    /\ Distributing
    /\ lastEvent = "click:removed"
    /\ \E f \in DOMAIN Placed :
        /\ Len(Placed[f]) >= 2
        /\ \E k \in 1..Len(Placed[f]) : Placed[f][k] # Placed[f][1]

(***************************************************************************)
(* The placement session with its arrays by identity: the snapshot of       *)
(* getFactoryConfiguration and the write of it into the engine's factories, *)
(* followed by further drops and removals on the same session.  Here        *)
(* factoryDropHandler[1].factories and gamestate.factory hold identities,   *)
(* and arrays holds the tiles of each identity.                             *)
(***************************************************************************)
\* FactoryState.tiles of factory id: one array, made once by setupDropZones
SessionArray(id) == id

\* getFactoryConfiguration pushing factory.tiles itself, not a copy
configArrayShared(id) == SessionArray(id)

\* getFactoryConfiguration's [...factory.tiles]: an array of its own
configArray(id) == NumFactories + id

\* the array gamestate.factory[i] holds before the write
EngineArray(i) == 2 * NumFactories + 1 + i

\* the session with the tiles of its arrays
Session ==
    [factoryDropHandler[1] EXCEPT
        !.factories = [id \in DOMAIN @ |-> arrays[@[id]]]]

\* the arrays after the session's arrays have taken the tiles of h
StoreSession(h) ==
    [r \in DOMAIN arrays |->
        IF \E id \in DOMAIN h.factories : SessionArray(id) = r
        THEN h.factories[CHOOSE id \in DOMAIN h.factories : SessionArray(id) = r]
        ELSE arrays[r]]

\* what the factories of a session hold when the snapshot is taken
SnapshotFills == { <<0, 1>>, <<1, 0, 0, 0>> }

InitSnapshot ==
    /\ factoryDropHandler =
         <<[setupDropZones(NumFactories) EXCEPT
              !.factories = [id \in DOMAIN @ |-> SessionArray(id)]]>>
    /\ \E fill \in [1..NumFactories -> SnapshotFills] :
         arrays = [r \in 1..(3 * NumFactories + 1) |->
                      IF r \in 1..NumFactories THEN fill[r]
                      ELSE IF r = EngineArray(0) THEN <<TileFirstPlayer>>
                      ELSE <<>>]
    /\ gamestate = [factory |-> [i \in 0..NumFactories |-> EngineArray(i)],
                    tilebag |-> <<>>,
                    state |-> "turn",
                    movesFrom |-> <<>>]
    /\ ourBag = <<>>
    /\ discardedTiles = <<>>
    /\ manualDistributionMode = TRUE
    /\ bagView = <<>>
    /\ selected_tile = TileNull
    /\ selected_factory = -1
    /\ possible_lines = {}
    /\ playerType = "AI"
    /\ lastEvent = "input"

\* steps 1 and 2 of applyManualDistribution on the session
TakeSnapshot ==
    /\ lastEvent = "input"
    /\ LET sortedIds == SortIds(DOMAIN factoryDropHandler[1].factories)
           tiles == getFactoryConfiguration(Session)
           factoryConfig == [k \in 1..Len(sortedIds) |-> configArray(sortedIds[k])]
       IN /\ arrays' =
                [r \in DOMAIN arrays |->
                    IF \E k \in 1..Len(sortedIds) : factoryConfig[k] = r
                    THEN tiles[CHOOSE k \in 1..Len(sortedIds) : factoryConfig[k] = r]
                    ELSE arrays[r]]
          /\ gamestate' = [gamestate EXCEPT
                              !.factory = WriteFactories(@, factoryConfig)]
    /\ lastEvent' = "snapshot"
    /\ UNCHANGED <<ourBag, discardedTiles, manualDistributionMode, bagView,
                   factoryDropHandler, selection, playerType>>

\* addTileToFactory on the session after the snapshot was taken
SessionDrop ==
    /\ lastEvent # "input"
    /\ \E factoryId \in FactoryIdInputs :
         \E r \in {addTileToFactory(Session, factoryId, 0)} :
            /\ arrays' = StoreSession(r.h)
            /\ lastEvent' = IF r.ok THEN "drop:placed" ELSE "drop:full"
    /\ UNCHANGED <<gamestate, ourBag, discardedTiles, manualDistributionMode,
                   bagView, factoryDropHandler, selection, playerType>>

\* removeTileFromFactory on the session after the snapshot was taken
SessionRemove ==
    /\ lastEvent # "input"
    /\ \E factoryId \in FactoryIdInputs, slotIndex \in SlotInputs :
         \E h \in {removeTileFromFactory(Session, factoryId, slotIndex)} :
            /\ arrays' = StoreSession(h)
            /\ lastEvent' = IF h = Session THEN "click:none" ELSE "click:removed"
    /\ UNCHANGED <<gamestate, ourBag, discardedTiles, manualDistributionMode,
                   bagView, factoryDropHandler, selection, playerType>>

NextSnapshot ==
    \/ TakeSnapshot
    \/ SessionDrop
    \/ SessionRemove

SpecSnapshot == InitSnapshot /\ [][NextSnapshot]_vars

\* C21: the snapshot lists the factories by ascending id, the ids being
\* 1..numFactories, so that the write gives engine factory id the tiles of
\* session factory id and leaves the centre alone; and the snapshot's tile
\* lists are copies: once written, no drop or removal on the session changes
\* the tiles of any engine factory.
C21_SnapshotOrderedAndCopied ==
    [][ /\ lastEvent' = "snapshot" =>
            /\ DOMAIN factoryDropHandler[1].factories = 1..NumFactories
            /\ \A id \in 1..NumFactories :
                 arrays'[gamestate'.factory[id]]
                     = arrays[factoryDropHandler[1].factories[id]]
            /\ arrays'[gamestate'.factory[0]] = arrays[gamestate.factory[0]]
        /\ lastEvent # "input" =>
            \A i \in DOMAIN gamestate.factory :
                 arrays'[gamestate'.factory[i]] = arrays[gamestate.factory[i]]
      ]_vars

\* a drop or a removal after the write has made a session factory differ
\* from the engine factory written from it
C21_Witness ==
    /\ lastEvent \in {"drop:placed", "click:removed"}
    /\ \E id \in 1..NumFactories :
         /\ arrays[gamestate.factory[id]] # arrays[factoryDropHandler[1].factories[id]]
         /\ arrays[gamestate.factory[id]] \in SnapshotFills

(***************************************************************************)
(* C22: every Enter (the constructor's, a round end's, replay's, rematch's) *)
(* leaves tilesNeeded = 4 * (number of engine factories - 1), a session of  *)
(* one empty factory per id of 1..numFactories and no other id (the centre, *)
(* id 0, is not registered), and a placed-tile counter of 0: nothing placed *)
(* before the Enter is left.                                                *)
(***************************************************************************)
EnterStep == lastEvent \in {"construct", "enter", "replay", "rematch"}

C22_EnterResetsSession ==
    EnterStep =>
        LET numFactories == Cardinality(DOMAIN gamestate.factory) - 1
        IN /\ Distributing
           /\ bagView[1].tilesNeeded = 4 * numFactories
           /\ DOMAIN Placed = 1..numFactories
           /\ 0 \notin DOMAIN Placed
           /\ \A id \in DOMAIN Placed : Placed[id] = <<>>
           /\ bagView[1].tilesPlaced = 0

\* a new game has been started and the session is the empty one
C22_Witness ==
    /\ lastEvent = "replay"
    /\ DOMAIN Placed = 1..NumFactories
    /\ getTotalTilesPlaced(factoryDropHandler[1]) = 0
    /\ bagView[1].tilesNeeded = NumFactories * FactoryCapacity

(***************************************************************************)
(* The game with human players: a factory tile is selected by a click and   *)
(* played by a click on a line.  A move <<factory, tile>> of the engine     *)
(* stands for the moves of that factory and colour to every line of         *)
(* MoveLines.                                                               *)
(***************************************************************************)
\* the lines a move can go to, and the lines a click can name
MoveLines == {0}
LineInputs == {0, 1}

\* clear_selected
ClearSelected ==
    /\ selected_factory' = -1
    /\ selected_tile' = TileNull
    /\ possible_lines' = {}

InitHuman ==
    LET g == enterManualDistributionPhase(
                 [gamestate |-> EngineNewGame,
                  ourBag |-> <<>>,
                  discardedTiles |-> <<>>,
                  bagView |-> <<>>,
                  factoryDropHandler |-> <<>>,
                  manualDistributionMode |-> FALSE])
    IN /\ gamestate = g.gamestate
       /\ ourBag = g.ourBag
       /\ discardedTiles = g.discardedTiles
       /\ bagView = g.bagView
       /\ factoryDropHandler = g.factoryDropHandler
       /\ manualDistributionMode = g.manualDistributionMode
       /\ selected_tile = TileNull
       /\ selected_factory = -1
       /\ possible_lines = {}
       /\ playerType = "HUMAN"
       /\ arrays = <<>>
       /\ lastEvent = "construct"

\* factory_tile_callback on a tile element of factory factory_id showing
\* colour tile: the listeners are those assign_factory_callbacks puts on the
\* factories created by applyManualDistribution
FactoryTileClick ==
    /\ playerType = "HUMAN"
    /\ ~manualDistributionMode
    /\ \E factory_id \in DOMAIN gamestate.factory, tile \in Colors :
        /\ \E k \in 1..Len(gamestate.factory[factory_id]) :
              gamestate.factory[factory_id][k] = tile
        /\ possible_lines' =
              IF <<factory_id, tile>> \in AvailableMoves(gamestate)
              THEN MoveLines ELSE {}
        /\ selected_tile' = tile
        /\ selected_factory' = factory_id
    /\ lastEvent' = "select"
    /\ UNCHANGED <<gamestate, ourBag, discardedTiles, manualDistributionMode,
                   bagView, factoryDropHandler, playerType, arrays>>

\* check_move finds exactly one move of the selection to line line_id
CheckMove(line_id) ==
    /\ <<selected_factory, selected_tile>> \in AvailableMoves(gamestate)
    /\ line_id \in MoveLines

\* line_click_callback on line line_id of the active player's board
LineClickOn(line_id) ==
    /\ playerType = "HUMAN"
    /\ IF selected_factory # -1 /\ selected_tile # TileNull
       THEN IF line_id \in possible_lines
            THEN IF CheckMove(line_id)
                 THEN /\ gamestate' = EnginePlayMove(gamestate, selected_factory,
                                                     selected_tile)
                      /\ ClearSelected
                      /\ lastEvent' = "move"
                 \* check_move returns undefined and playMove(undefined)
                 \* throws: the handler ends there
                 ELSE /\ UNCHANGED <<gamestate, selection>>
                      /\ lastEvent' = "line:nomove"
            ELSE /\ UNCHANGED <<gamestate, selection>>
                 /\ lastEvent' = "line:ignored"
       ELSE /\ ClearSelected
            /\ UNCHANGED gamestate
            /\ lastEvent' = "line:ignored"
    /\ UNCHANGED <<ourBag, discardedTiles, manualDistributionMode, bagView,
                   factoryDropHandler, playerType, arrays>>

LineClick == \E line_id \in LineInputs : LineClickOn(line_id)

\* screen_click_callback in State.turn with a human to move
ScreenClickHuman ==
    /\ ~manualDistributionMode
    /\ playerType = "HUMAN"
    /\ gamestate.state = "turn"
    /\ ClearSelected
    /\ lastEvent' = "screen:human"
    /\ UNCHANGED <<gamestate, ourBag, discardedTiles, manualDistributionMode,
                   bagView, factoryDropHandler, playerType, arrays>>

NextHuman ==
    \/ BagDrop
    \/ StrayDrop
    \/ TileClick
    \/ StartRound
    \/ FactoryTileClick
    \/ LineClick
    \/ ScreenClickHuman
    \/ ScreenClickGameEnd
    \/ ScreenClickNewRound
    \/ Replay
    \/ Rematch

SpecHuman == InitHuman /\ [][NextHuman]_vars

(***************************************************************************)
(* C23: while manualDistributionMode is true no handler plays a move,       *)
(* advances the turn or ends a round: the engine is written only by Apply   *)
(* and by the Enter of a new game.                                          *)
(***************************************************************************)
C23_EngineStillWhileDistributing ==
    [][manualDistributionMode =>
          \/ gamestate' = gamestate
          \/ lastEvent' \in {"apply", "replay", "rematch"}]_vars

(***************************************************************************)
(* C24: in every state of the distribution phase BagView.tilesPlaced equals *)
(* the number of tiles in the factories of the FactoryDropHandler, and so   *)
(* lies in 0..numFactories * 4.                                             *)
(* Violated: a drop of a colour whose count is 0 fills a slot and leaves    *)
(* tilesPlaced alone (C2); its removal then takes tilesPlaced below the     *)
(* number of tiles on the factories, down to -1.                            *)
(***************************************************************************)
C24_TrackersAgree ==
    Distributing =>
        /\ bagView[1].tilesPlaced = getTotalTilesPlaced(factoryDropHandler[1])
        /\ bagView[1].tilesPlaced \in 0..(NumFactories * FactoryCapacity)

\* the tiles of colour c on the factories of the session
PlacedOf(c) ==
    SumOver([id \in DOMAIN Placed |-> CountOf(Placed[id], c)], DOMAIN Placed)

(***************************************************************************)
(* C25: in every state of the distribution phase and for every colour c,    *)
(* ourBag holds as many tiles of c as the supply counts plus the factories  *)
(* hold, so that each tile Apply removes from ourBag is found there.        *)
(* Violated: a factory can hold a tile of a colour the supply never had     *)
(* (C2), and a removal credits the supply with it.                          *)
(***************************************************************************)
C25_BagCoversPlaced ==
    Distributing =>
        \A c \in Colors :
            /\ CountOf(ourBag, c) = Counts[c] + PlacedOf(c)
            /\ PlacedOf(c) <= CountOf(ourBag, c)

(***************************************************************************)
(* C26: in every state of the distribution phase with the start button      *)
(* disabled some drop is accepted: some colour has a positive count and     *)
(* some factory holds fewer than 4 tiles.                                   *)
(* Violated: with a tile on the factories that the supply was not debited   *)
(* for (C2) every factory can be full while tilesPlaced is short of the     *)
(* target; only a removal leads on from there.                              *)
(***************************************************************************)
C26_SomeDropAccepted ==
    (Distributing /\ bagView[1].startDisabled) =>
        /\ \E c \in Colors : Counts[c] > 0
        /\ \E id \in DOMAIN Placed : Len(Placed[id]) < FactoryCapacity

(***************************************************************************)
(* C27: applyManualDistribution called with factoryDropHandler null (the    *)
(* controller is Idle) returns at once: the engine's factories and bag,     *)
(* ourBag, discardedTiles and manualDistributionMode are what they were.    *)
(***************************************************************************)
C27_ApplyWhenIdleIsNoOp ==
    factoryDropHandler = <<>> =>
        \E g \in {applyManualDistribution(Game)} :
            /\ g.gamestate.factory = gamestate.factory
            /\ g.gamestate.tilebag = gamestate.tilebag
            /\ g.ourBag = ourBag
            /\ g.discardedTiles = discardedTiles
            /\ g.manualDistributionMode = manualDistributionMode
            /\ g = Game

\* the controller is Idle in the middle of a round, with tiles in the engine's
\* bag, in ourBag and on the factories
C27_Witness ==
    /\ Idle
    /\ lastEvent = "move"
    /\ gamestate.tilebag # <<>>
    /\ ourBag # <<>>
    /\ TilesLeft(gamestate.factory)

====
